---- MODULE Spec2Model ----
(***************************************************************************)
(* A model of rust-grep-plus (src/src/main.rs): Config::new, main,         *)
(* execute, collect_files_recursively, search_in_file and print_match.     *)
(*                                                                         *)
(* A string is a sequence of characters; a character is a one-element      *)
(* TLA+ string, or a name for a character that is not ASCII ("LONG_S" is   *)
(* U+017F, "ESC_RED" is the escape sequence ESC[31m, "ESC_RESET" is        *)
(* ESC[0m).                                                                *)
(***************************************************************************)
EXTENDS Integers, Sequences, FiniteSets, TLC

VARIABLES
    args,          \* env::args(): the program name, then the arguments
    fs,            \* the filesystem the run reads (never written)
    pc,            \* where the run is: main, execute, collect, loop, scan, exit
    config,        \* the Config that Config::new built
    query_str,     \* execute's local query_str
    files,         \* collect_files_recursively's local files
    pathIdx,       \* collect_files_recursively's position in paths (1-based)
    target_files,  \* execute's local target_files
    fileIdx,       \* execute's position in target_files (1-based)
    lineIdx,       \* search_in_file's idx (0-based, as enumerate() counts)
    openFiles,     \* the paths with a live fs::File
    stdout,        \* the lines written to standard output
    stderr,        \* the lines written to standard error
    status,        \* the exit status, -1 while the process runs
    opened,        \* history: the paths search_in_file tried to open, in order
    printed        \* history: the calls of print_match, in order

vars == <<args, fs, pc, config, query_str, files, pathIdx, target_files, fileIdx,
          lineIdx, openFiles, stdout, stderr, status, opened, printed>>

-----------------------------------------------------------------------------
(* Bounds of the model.                                                     *)

MaxArgs == 4
MaxLines == 2
ScanLineLen == 2
ScanQueryLen == 1
MaxLineLen == 3
MaxQueryLen == 2

-----------------------------------------------------------------------------
(* Strings.                                                                 *)

SeqsUpTo(S, n) == UNION {[1..k -> S] : k \in 0..n}

\* str::contains with a &str pattern: substring containment.
Contains(hay, needle) ==
    \E p \in 0..(Len(hay) - Len(needle)) :
        SubSeq(hay, p + 1, p + Len(needle)) = needle

\* char::to_lowercase on the characters of the model: the ASCII capitals map to
\* their small letters; U+017F (LONG_S) is a lowercase letter already and maps
\* to itself; every other character of the model has no lowercase mapping.
LowerChar(c) ==
    CASE c = "S" -> <<"s">>
      [] c = "F" -> <<"f">>
      [] OTHER -> <<c>>

\* str::to_lowercase
RECURSIVE to_lowercase(_)
to_lowercase(s) ==
    IF s = <<>> THEN <<>> ELSE LowerChar(Head(s)) \o to_lowercase(Tail(s))

\* The decimal digits of a usize, as Display writes them.
Digits == <<"0", "1", "2", "3", "4", "5", "6", "7", "8", "9">>

RECURSIVE ToDecimal(_)
ToDecimal(n) ==
    IF n < 10 THEN <<Digits[n + 1]>>
    ELSE ToDecimal(n \div 10) \o <<Digits[(n % 10) + 1]>>

-----------------------------------------------------------------------------
(* colored and regex, as print_match uses them.                             *)

\* colored's "text".red().to_string(), with colouring on as it is by default:
\* ESC[31m, the text, ESC[0m.
red(s) == <<"ESC_RED">> \o s \o <<"ESC_RESET">>

Markers == {"ESC_RED", "ESC_RESET"}

\* str::replace(from, to): every non-overlapping occurrence of from, leftmost
\* first, is replaced by to; the empty pattern occurs at every boundary.
RECURSIVE ReplaceFrom(_, _, _, _)
ReplaceFrom(line, from, to, p) ==
    IF from = <<>>
    THEN to \o (IF p = Len(line) THEN <<>>
                ELSE <<line[p + 1]>> \o ReplaceFrom(line, from, to, p + 1))
    ELSE IF p + Len(from) > Len(line) THEN SubSeq(line, p + 1, Len(line))
    ELSE IF SubSeq(line, p + 1, p + Len(from)) = from
         THEN to \o ReplaceFrom(line, from, to, p + Len(from))
         ELSE <<line[p + 1]>> \o ReplaceFrom(line, from, to, p + 1)

str_replace(line, from, to) == ReplaceFrom(line, from, to, 0)

\* The characters regex::escape puts a backslash before.
RegexMeta == {"\\", ".", "+", "*", "?", "(", ")", "|", "[", "]", "{", "}",
              "^", "$", "#", "&", "-", "~"}

RECURSIVE regex_escape(_)
regex_escape(s) ==
    IF s = <<>> THEN <<>>
    ELSE (IF Head(s) \in RegexMeta THEN <<"\\", Head(s)>> ELSE <<Head(s)>>)
         \o regex_escape(Tail(s))

\* The atoms of a pattern's text: a backslash makes the next character a
\* literal, an unescaped dot matches any character, every other character of
\* the model is a literal.
RECURSIVE RegexAtoms(_)
RegexAtoms(s) ==
    IF s = <<>> THEN <<>>
    ELSE IF Head(s) = "\\" /\ Len(s) >= 2
         THEN <<[any |-> FALSE, c |-> s[2]]>> \o RegexAtoms(Tail(Tail(s)))
    ELSE IF Head(s) = "."
         THEN <<[any |-> TRUE, c |-> "."]>> \o RegexAtoms(Tail(s))
    ELSE <<[any |-> FALSE, c |-> Head(s)]>> \o RegexAtoms(Tail(s))

CaseInsensitiveFlag == <<"(", "?", "i", ")">>

\* Regex::new on "(?i)" followed by a pattern.
RegexNew(pattern) ==
    IF Len(pattern) >= 4 /\ SubSeq(pattern, 1, 4) = CaseInsensitiveFlag
    THEN [ci |-> TRUE, atoms |-> RegexAtoms(SubSeq(pattern, 5, Len(pattern)))]
    ELSE [ci |-> FALSE, atoms |-> RegexAtoms(pattern)]

\* Unicode simple case folding, which (?i) matches by: s, S and U+017F fold
\* together.
SimpleFold(c) ==
    CASE c = "S" -> "s"
      [] c = "LONG_S" -> "s"
      [] c = "F" -> "f"
      [] OTHER -> c

AtomMatches(re, atom, c) ==
    \/ atom.any
    \/ atom.c = c
    \/ re.ci /\ SimpleFold(atom.c) = SimpleFold(c)

MatchesAt(re, line, p) ==
    /\ p + Len(re.atoms) <= Len(line)
    /\ \A j \in 1..Len(re.atoms) : AtomMatches(re, re.atoms[j], line[p + j])

\* The closure with the matched text lowercased before it is coloured.
highlight_closure_Lower(caps0) == red(to_lowercase(caps0))

\* The closure |caps| caps[0].red().to_string(): caps0 is the matched text.
highlight_closure(caps0) == red(caps0)

\* Regex::replace_all with that closure: the non-overlapping matches, leftmost
\* first; the empty pattern matches at every boundary.
RECURSIVE RegexReplaceFrom(_, _, _)
RegexReplaceFrom(re, line, p) ==
    LET n == Len(re.atoms) IN
    IF n = 0
    THEN highlight_closure(<<>>)
         \o (IF p = Len(line) THEN <<>>
             ELSE <<line[p + 1]>> \o RegexReplaceFrom(re, line, p + 1))
    ELSE IF p + n > Len(line) THEN SubSeq(line, p + 1, Len(line))
    ELSE IF MatchesAt(re, line, p)
         THEN highlight_closure(SubSeq(line, p + 1, p + n))
              \o RegexReplaceFrom(re, line, p + n)
         ELSE <<line[p + 1]>> \o RegexReplaceFrom(re, line, p + 1)

regex_replace_all(re, line) == RegexReplaceFrom(re, line, 0)

-----------------------------------------------------------------------------
(* Config::new                                                              *)

FlagI == <<"-", "i">>
FlagN == <<"-", "n">>
FlagV == <<"-", "v">>
FlagR == <<"-", "r">>
FlagF == <<"-", "f">>
FlagC == <<"-", "c">>
FlagH == <<"-", "h">>
FlagHelp == <<"-", "-", "h", "e", "l", "p">>

Flags == {FlagI, FlagN, FlagV, FlagR, FlagF, FlagC, FlagH, FlagHelp}

\* The Config of lines 41-50: the query is args[1] (the second element of
\* args here, where sequences count from 1).
NewConfig(query) ==
    [query_str |-> query, target_files |-> <<>>, case_insensitive |-> FALSE,
     print_line_numbers |-> FALSE, invert_match |-> FALSE,
     recursive_search |-> FALSE, print_filenames |-> FALSE,
     colored_output |-> FALSE]

NoConfig == NewConfig(<<>>)

\* The loop over args[2..]: k is the position in args of the next argument.
\* It ends early, with help set, at the first -h or --help.
RECURSIVE SetFlags(_, _, _)
SetFlags(a, k, c) ==
    IF k > Len(a) THEN [help |-> FALSE, config |-> c]
    ELSE LET arg == a[k] IN
         CASE arg = FlagI -> SetFlags(a, k + 1, [c EXCEPT !.case_insensitive = TRUE])
           [] arg = FlagN -> SetFlags(a, k + 1, [c EXCEPT !.print_line_numbers = TRUE])
           [] arg = FlagV -> SetFlags(a, k + 1, [c EXCEPT !.invert_match = TRUE])
           [] arg = FlagR -> SetFlags(a, k + 1, [c EXCEPT !.recursive_search = TRUE])
           [] arg = FlagF -> SetFlags(a, k + 1, [c EXCEPT !.print_filenames = TRUE])
           [] arg = FlagC -> SetFlags(a, k + 1, [c EXCEPT !.colored_output = TRUE])
           [] arg \in {FlagH, FlagHelp} -> [help |-> TRUE, config |-> c]
           [] OTHER ->
                SetFlags(a, k + 1,
                         [c EXCEPT !.target_files = Append(c.target_files, arg)])

ErrNotEnough == "not enough arguments"
ErrNoFiles == "No files provided."

\* Config::new without the check of line 76.
ConfigNew_NoFilesCheck(a) ==
    IF Len(a) < 3
    THEN [kind |-> "Err", msg |-> ErrNotEnough, config |-> NoConfig]
    ELSE LET r == SetFlags(a, 3, NewConfig(a[2])) IN
         IF r.help THEN [kind |-> "Help", msg |-> "", config |-> NoConfig]
         ELSE [kind |-> "Ok", msg |-> "", config |-> r.config]

\* Config::new: Err(msg), Ok(config), or the process exits in print_help_info's
\* branch (kind Help).
ConfigNew(a) ==
    IF Len(a) < 3
    THEN [kind |-> "Err", msg |-> ErrNotEnough, config |-> NoConfig]
    ELSE LET r == SetFlags(a, 3, NewConfig(a[2])) IN
         IF r.help THEN [kind |-> "Help", msg |-> "", config |-> NoConfig]
         ELSE IF r.config.target_files = <<>>
              THEN [kind |-> "Err", msg |-> ErrNoFiles, config |-> NoConfig]
              ELSE [kind |-> "Ok", msg |-> "", config |-> r.config]

\* print_help_info: the nine lines of the usage text, written here as one.
HelpInfo == <<"Usage: grep [OPTIONS] <pattern> <files...>">>

-----------------------------------------------------------------------------
(* The filesystem: a function from paths to nodes. A node is a regular file   *)
(* (its lines as BufRead::lines yields them: Ok(text) or Err), a directory    *)
(* (its entries in read_dir's order, and whether it can be listed), a         *)
(* symbolic link, or an entry whose type cannot be read. A path outside the   *)
(* function's domain does not exist.                                          *)

OkLine(text) == [ok |-> TRUE, text |-> text]
ErrLine == [ok |-> FALSE, text |-> <<>>]

FileNode(lines, readable) ==
    [kind |-> "file", readable |-> readable, children |-> <<>>, lines |-> lines,
     target |-> <<>>]
DirNode(children, readable) ==
    [kind |-> "dir", readable |-> readable, children |-> children, lines |-> <<>>,
     target |-> <<>>]
LinkNode(target) ==
    [kind |-> "symlink", readable |-> TRUE, children |-> <<>>, lines |-> <<>>,
     target |-> target]
BadEntry ==
    [kind |-> "error", readable |-> FALSE, children |-> <<>>, lines |-> <<>>,
     target |-> <<>>]
Missing ==
    [kind |-> "missing", readable |-> FALSE, children |-> <<>>, lines |-> <<>>,
     target |-> <<>>]

NodeAt(f, path) == IF path \in DOMAIN f THEN f[path] ELSE Missing

\* WalkDir::new(path).into_iter(): depth first, a directory before its
\* entries; links are not followed. Each item is Ok(entry) or Err.
RECURSIVE WalkDir(_, _)
RECURSIVE WalkAll(_, _)
WalkDir(f, path) ==
    LET node == NodeAt(f, path) IN
    CASE node.kind \in {"missing", "error"} -> <<[ok |-> FALSE, path |-> path, kind |-> node.kind]>>
      [] node.kind = "dir" ->
           <<[ok |-> TRUE, path |-> path, kind |-> "dir"]>>
           \o (IF node.readable THEN WalkAll(f, node.children)
               ELSE <<[ok |-> FALSE, path |-> path, kind |-> "dir"]>>)
      [] OTHER -> <<[ok |-> TRUE, path |-> path, kind |-> node.kind]>>

WalkAll(f, paths) ==
    IF paths = <<>> THEN <<>> ELSE WalkDir(f, Head(paths)) \o WalkAll(f, Tail(paths))

\* The inner loop of collect_files_recursively with the walk's errors
\* propagated instead of dropped.
RECURSIVE CollectEntries_Propagate(_)
CollectEntries_Propagate(results) ==
    IF results = <<>> THEN [ok |-> TRUE, files |-> <<>>]
    ELSE LET r == Head(results)
             rest == CollectEntries_Propagate(Tail(results)) IN
         IF ~r.ok THEN [ok |-> FALSE, files |-> <<>>]
         ELSE [ok |-> rest.ok,
               files |-> IF ~rest.ok THEN <<>>
                         ELSE IF r.kind = "file" THEN <<r.path>> \o rest.files
                         ELSE rest.files]

\* The inner loop of collect_files_recursively: filter_map(|result| result.ok())
\* drops the errors, and entry.file_type().is_file() keeps the regular files.
RECURSIVE CollectEntries(_)
CollectEntries(results) ==
    IF results = <<>> THEN [ok |-> TRUE, files |-> <<>>]
    ELSE LET r == Head(results)
             rest == CollectEntries(Tail(results)) IN
         [ok |-> rest.ok,
          files |-> IF r.ok /\ r.kind = "file" THEN <<r.path>> \o rest.files
                    ELSE rest.files]

-----------------------------------------------------------------------------
(* search_in_file and print_match                                           *)

\* The outcomes of fs::File::open followed by the reads: a regular file that
\* may be read opens; a directory either fails to open or opens and fails at
\* the first read, as the platform decides; anything else fails to open.
OpenOutcomes(node) ==
    CASE node.kind = "file" /\ node.readable -> {"opened"}
      [] node.kind = "dir" -> {"failed", "opened"}
      [] OTHER -> {"failed"}

\* The node a path opens: open follows a symbolic link.
Resolve(f, path) ==
    LET node == NodeAt(f, path) IN
    IF node.kind = "symlink" THEN NodeAt(f, node.target) ELSE node

\* What reader.lines() yields for an opened node.
LinesOf(node) == IF node.kind = "dir" THEN <<ErrLine>> ELSE node.lines

\* matched without the line lowercased.
matched_NoLower(line, q, c) == Contains(line, q)

\* lines 181-185; q is execute's query_str.
matched(line, q, c) ==
    IF c.case_insensitive THEN Contains(to_lowercase(line), q)
    ELSE Contains(line, q)

\* should_print with invert_match ignored.
should_print_NoInvert(m, c) == m

\* line 187
should_print(m, c) == IF c.invert_match THEN ~m ELSE m

\* lines 198-214
formatted_line(line, c) ==
    IF c.colored_output
    THEN IF c.case_insensitive
         THEN regex_replace_all(
                  RegexNew(CaseInsensitiveFlag \o regex_escape(c.query_str)), line)
         ELSE str_replace(line, c.query_str, red(c.query_str))
    ELSE line

Sep == <<":", " ">>

\* println! with no space between the filename's colon and the line number.
println_NoSpace(line_idx, text, filename, c) ==
    IF c.print_filenames /\ c.print_line_numbers
    THEN filename \o <<":">> \o ToDecimal(line_idx + 1) \o Sep \o text
    ELSE IF c.print_filenames THEN filename \o Sep \o text
    ELSE IF c.print_line_numbers THEN ToDecimal(line_idx + 1) \o Sep \o text
    ELSE text

\* lines 216-228: the line println! writes.
println(line_idx, text, filename, c) ==
    IF c.print_filenames /\ c.print_line_numbers
    THEN filename \o Sep \o ToDecimal(line_idx + 1) \o Sep \o text
    ELSE IF c.print_filenames THEN filename \o Sep \o text
    ELSE IF c.print_line_numbers THEN ToDecimal(line_idx + 1) \o Sep \o text
    ELSE text

print_match(line_idx, line, filename, c) ==
    println(line_idx, formatted_line(line, c), filename, c)

\* A fs::File that is not released when its scope ends.
Drop_Leak(open, path) == open

\* The fs::File of search_in_file is dropped when the function returns, by
\* its last line or by a ? operator.
Drop(open, path) == open \ {path}

-----------------------------------------------------------------------------
(* The run.                                                                 *)

ParseError(msg) == [kind |-> "Problem parsing arguments", msg |-> msg]
ApplicationError == [kind |-> "Application error", msg |-> "io::Error"]

\* main, lines 104-111: Config::new, and the exits of its error and help
\* branches.
Main ==
    /\ pc = "main"
    /\ LET r == ConfigNew(args) IN
       /\ config' = r.config
       /\ stderr' = IF r.kind = "Err" THEN Append(stderr, ParseError(r.msg))
                    ELSE stderr
       /\ stdout' = IF r.kind \in {"Err", "Help"} THEN Append(stdout, HelpInfo)
                    ELSE stdout
       /\ status' = CASE r.kind = "Err" -> 1
                      [] r.kind = "Help" -> 0
                      [] OTHER -> status
       /\ pc' = IF r.kind = "Ok" THEN "execute" ELSE "exit"
    /\ UNCHANGED <<args, fs, query_str, files, pathIdx, target_files, fileIdx,
                   lineIdx, openFiles, opened, printed>>

\* An error that is logged, after which the loop goes on with the next file.
Propagate_Continue ==
    /\ stderr' = Append(stderr, ApplicationError)
    /\ status' = status
    /\ pc' = "loop"
    /\ fileIdx' = fileIdx + 1

\* An Err that a ? operator returns from execute: main writes it to standard
\* error and exits with status 1 (lines 114-117).
Propagate ==
    /\ stderr' = Append(stderr, ApplicationError)
    /\ status' = 1
    /\ pc' = "exit"
    /\ fileIdx' = fileIdx

\* execute, lines 126-137.
Execute ==
    /\ pc = "execute"
    /\ query_str' = IF config.case_insensitive THEN to_lowercase(config.query_str)
                    ELSE config.query_str
    /\ IF config.recursive_search
       THEN /\ pc' = "collect"
            /\ files' = <<>>
            /\ pathIdx' = 1
            /\ UNCHANGED <<target_files, fileIdx>>
       ELSE /\ pc' = "loop"
            /\ target_files' = config.target_files
            /\ fileIdx' = 1
            /\ UNCHANGED <<files, pathIdx>>
    /\ UNCHANGED <<args, fs, config, lineIdx, openFiles, stdout, stderr, status,
                   opened, printed>>

\* collect_files_recursively: one path of the outer loop, lines 151-157.
CollectPath ==
    /\ pc = "collect"
    /\ pathIdx <= Len(config.target_files)
    /\ LET r == CollectEntries(WalkDir(fs, config.target_files[pathIdx])) IN
       IF r.ok
       THEN /\ files' = files \o r.files
            /\ pathIdx' = pathIdx + 1
            /\ UNCHANGED <<pc, stderr, status, fileIdx>>
       ELSE /\ Propagate
            /\ UNCHANGED <<files, pathIdx>>
    /\ UNCHANGED <<args, fs, config, query_str, target_files, lineIdx, openFiles,
                   stdout, opened, printed>>

\* collect_files_recursively returns Ok(files), line 158, and execute's loop
\* starts.
CollectDone ==
    /\ pc = "collect"
    /\ pathIdx > Len(config.target_files)
    /\ target_files' = files
    /\ fileIdx' = 1
    /\ pc' = "loop"
    /\ UNCHANGED <<args, fs, config, query_str, files, pathIdx, lineIdx, openFiles,
                   stdout, stderr, status, opened, printed>>

\* search_in_file is called on the next target: fs::File::open, line 174.
OpenFile ==
    /\ pc = "loop"
    /\ fileIdx <= Len(target_files)
    /\ LET path == target_files[fileIdx] IN
       /\ opened' = Append(opened, path)
       /\ \E o \in OpenOutcomes(Resolve(fs, path)) :
            IF o = "opened"
            THEN /\ openFiles' = openFiles \cup {path}
                 /\ lineIdx' = 0
                 /\ pc' = "scan"
                 /\ UNCHANGED <<stderr, status, fileIdx>>
            ELSE /\ Propagate
                 /\ UNCHANGED <<openFiles, lineIdx>>
    /\ UNCHANGED <<args, fs, config, query_str, files, pathIdx, target_files,
                   stdout, printed>>

\* One turn of the loop over reader.lines(), lines 178-191.
ScanLine ==
    /\ pc = "scan"
    /\ LET path == target_files[fileIdx]
           lines == LinesOf(Resolve(fs, path)) IN
       /\ lineIdx < Len(lines)
       /\ LET item == lines[lineIdx + 1] IN
          IF ~item.ok
          THEN /\ openFiles' = Drop(openFiles, path)
               /\ Propagate
               /\ UNCHANGED <<lineIdx, stdout, printed>>
          ELSE /\ IF should_print(matched(item.text, query_str, config), config)
                  THEN /\ stdout' = Append(stdout,
                                           print_match(lineIdx, item.text, path, config))
                       /\ printed' = Append(printed,
                                            [fileNo |-> fileIdx, idx |-> lineIdx,
                                             line |-> item.text])
                  ELSE UNCHANGED <<stdout, printed>>
               /\ lineIdx' = lineIdx + 1
               /\ UNCHANGED <<openFiles, pc, stderr, status, fileIdx>>
    /\ UNCHANGED <<args, fs, config, query_str, files, pathIdx, target_files, opened>>

\* reader.lines() is exhausted: search_in_file returns Ok(()), line 193.
EndOfFile ==
    /\ pc = "scan"
    /\ LET path == target_files[fileIdx] IN
       /\ lineIdx >= Len(LinesOf(Resolve(fs, path)))
       /\ openFiles' = Drop(openFiles, path)
    /\ fileIdx' = fileIdx + 1
    /\ pc' = "loop"
    /\ UNCHANGED <<args, fs, config, query_str, files, pathIdx, target_files,
                   lineIdx, stdout, stderr, status, opened, printed>>

\* execute returns Ok(()), line 143, and main ends: exit status 0.
ExecuteDone ==
    /\ pc = "loop"
    /\ fileIdx > Len(target_files)
    /\ pc' = "exit"
    /\ status' = 0
    /\ UNCHANGED <<args, fs, config, query_str, files, pathIdx, target_files,
                   fileIdx, lineIdx, openFiles, stdout, stderr, opened, printed>>

-----------------------------------------------------------------------------
(* The specifications.                                                      *)

Prog == <<"g", "r", "e", "p">>

PathF == <<"f">>
PathB == <<"b">>
PathD == <<"d">>
PathX == <<"x">>
PathDG == <<"d", "/", "g">>
PathDL == <<"d", "/", "l">>
PathDE == <<"d", "/", "e">>
PathDU == <<"d", "/", "u">>
PathDUH == <<"d", "/", "u", "/", "h">>
PathDS == <<"d", "/", "s">>
PathDSB == <<"d", "/", "s", "/", "b">>

\* The filesystem of Spec: a file f; a file b whose second line does not
\* decode; a directory d holding a file, a link, an entry whose type cannot
\* be read, a directory that cannot be listed and a directory with one more
\* file. No path x exists.
TheFS ==
    (PathF :> FileNode(<<OkLine(<<"f">>), OkLine(<<"x">>), OkLine(<<"F", "f">>)>>, TRUE))
    @@ (PathB :> FileNode(<<OkLine(<<"b", "f">>), ErrLine, OkLine(<<"f">>)>>, TRUE))
    @@ (PathD :> DirNode(<<PathDG, PathDL, PathDE, PathDU, PathDS>>, TRUE))
    @@ (PathDG :> FileNode(<<OkLine(<<"d">>), OkLine(<<"f">>)>>, TRUE))
    @@ (PathDL :> LinkNode(PathF))
    @@ (PathDE :> BadEntry)
    @@ (PathDU :> DirNode(<<PathDUH>>, FALSE))
    @@ (PathDUH :> FileNode(<<OkLine(<<"f">>)>>, TRUE))
    @@ (PathDS :> DirNode(<<PathDSB>>, TRUE))
    @@ (PathDSB :> FileNode(<<OkLine(<<"f", "b">>)>>, TRUE))

Tokens == Flags \cup {PathF, PathB, PathD, PathX}

InitRun(a, f) ==
    /\ args = a
    /\ fs = f
    /\ pc = "main"
    /\ config = NoConfig
    /\ query_str = <<>>
    /\ files = <<>>
    /\ pathIdx = 1
    /\ target_files = <<>>
    /\ fileIdx = 1
    /\ lineIdx = 0
    /\ openFiles = {}
    /\ stdout = <<>>
    /\ stderr = <<>>
    /\ status = -1
    /\ opened = <<>>
    /\ printed = <<>>

\* Any command line of at most MaxArgs arguments, on TheFS.
Init == \E a \in SeqsUpTo(Tokens, MaxArgs) : InitRun(<<Prog>> \o a, TheFS)

NextScan == Main \/ Execute \/ OpenFile \/ ScanLine \/ EndOfFile \/ ExecuteDone

Next == NextScan \/ CollectPath \/ CollectDone

Spec == Init /\ [][Next]_vars

Opt(b, flag) == IF b THEN <<flag>> ELSE <<>>

OneFile(lines) == PathF :> FileNode([k \in 1..Len(lines) |-> OkLine(lines[k])], TRUE)

\* grep <query> [-i] [-v] f, on a file f of at most MaxLines lines.
ScanAlphabet == {"s", "S"}

InitScan ==
    \E q \in SeqsUpTo(ScanAlphabet, ScanQueryLen), ci \in BOOLEAN, inv \in BOOLEAN,
       lines \in SeqsUpTo(SeqsUpTo(ScanAlphabet, ScanLineLen), MaxLines) :
        InitRun(<<Prog, q>> \o Opt(ci, FlagI) \o Opt(inv, FlagV) \o <<PathF>>,
                OneFile(lines))

SpecScan == InitScan /\ [][NextScan]_vars

\* grep <query> -c [-i] [-v] f, on a file f of one line.
HighlightAlphabet == {"s", "S", "LONG_S", "."}

InitHighlight ==
    \E q \in SeqsUpTo(HighlightAlphabet, MaxQueryLen), ci \in BOOLEAN, inv \in BOOLEAN,
       line \in SeqsUpTo(HighlightAlphabet, MaxLineLen) :
        InitRun(<<Prog, q, FlagC>> \o Opt(ci, FlagI) \o Opt(inv, FlagV) \o <<PathF>>,
                OneFile(<<line>>))

SpecHighlight == InitHighlight /\ [][NextScan]_vars

-----------------------------------------------------------------------------
(* What the claims are stated with.                                         *)

Range(seq) == {seq[k] : k \in 1..Len(seq)}

\* The arguments after the program name, and those after the query.
NumArgs == Len(args) - 1
AfterQuery == {args[k] : k \in 3..Len(args)}
HelpAfterQuery == AfterQuery \cap {FlagH, FlagHelp} # {}
HelpAnywhere == \E k \in 2..Len(args) : args[k] \in {FlagH, FlagHelp}
NoTargetAfterQuery == AfterQuery \subseteq Flags

ArgumentErrors == {k \in 1..Len(stderr) : stderr[k].kind = "Problem parsing arguments"}
ApplicationErrors == {k \in 1..Len(stderr) : stderr[k].kind = "Application error"}

\* Config::new returned Ok: only then does config hold a target.
ConfigOk == config.target_files # <<>>

\* search_in_file fails on a path: it cannot be opened, or one of its lines
\* cannot be read.
BadLines(path) ==
    LET lines == LinesOf(Resolve(fs, path)) IN {i \in 0..(Len(lines) - 1) : ~lines[i + 1].ok}
Fails(path) ==
    \/ "opened" \notin OpenOutcomes(Resolve(fs, path))
    \/ BadLines(path) # {}
Failing == {k \in 1..Len(target_files) : Fails(target_files[k])}
Min(S) == CHOOSE x \in S : \A y \in S : x <= y

HasMarker(text) == \E k \in 1..Len(text) : text[k] \in Markers
IsPlain(c) == c \notin Markers
StripMarkers(text) == SelectSeq(text, IsPlain)

-----------------------------------------------------------------------------
(* C1: when search_in_file fails on target k of execute's list and on no    *)
(* target before it, no target after k is opened, nothing is printed after  *)
(* the failure, standard error gets exactly one "Application error" line    *)
(* and the process ends with exit status 1.                                 *)
C1_AbortOnFirstFailure ==
    (pc \in {"loop", "scan", "exit"} /\ Failing # {}) =>
        LET k == Min(Failing) IN
        /\ Len(opened) <= k
        /\ opened = SubSeq(target_files, 1, Len(opened))
        /\ Len(stdout) = Len(printed)
        /\ \A j \in 1..Len(printed) :
              \/ printed[j].fileNo < k
              \/ /\ printed[j].fileNo = k
                 /\ \A b \in BadLines(target_files[k]) : printed[j].idx < b
        /\ Cardinality(ApplicationErrors) <= 1
        /\ pc = "exit" => /\ Len(opened) = k
                          /\ Len(stderr) = 1
                          /\ Cardinality(ApplicationErrors) = 1
                          /\ status = 1

\* The run ended at a failure on the second of three targets, after output.
C1_Witness ==
    /\ pc = "exit"
    /\ status = 1
    /\ Len(target_files) = 3
    /\ Failing # {}
    /\ Min(Failing) = 2
    /\ printed # <<>>

-----------------------------------------------------------------------------
(* C2: search_in_file prints exactly the lines whose index i satisfies      *)
(* matched(i) XOR invert_match, where matched(i) is substring containment   *)
(* of the query in line i, both lowercased when case_insensitive is set;    *)
(* in increasing index, each line at most once.                             *)
ArgCaseInsensitive == FlagI \in AfterQuery
ArgInvert == FlagV \in AfterQuery
ArgQuery == args[2]
LineText(i) == fs[PathF].lines[i + 1].text
NumLines == Len(fs[PathF].lines)
ContainsQuery(i) ==
    IF ArgCaseInsensitive
    THEN Contains(to_lowercase(LineText(i)), to_lowercase(ArgQuery))
    ELSE Contains(LineText(i), ArgQuery)
ToPrint == {i \in 0..(NumLines - 1) : ContainsQuery(i) # ArgInvert}

C2_PrintsMatchXorInvert ==
    /\ \A j \in 1..Len(printed) :
          /\ printed[j].idx \in ToPrint
          /\ printed[j].idx < lineIdx
          /\ printed[j].line = LineText(printed[j].idx)
          /\ stdout[j] = printed[j].line
          /\ \A h \in 1..(j - 1) : printed[h].idx < printed[j].idx
    /\ Len(stdout) = Len(printed)
    /\ pc \in {"scan", "loop", "exit"} /\ opened # <<>> =>
          \A i \in ToPrint : i < lineIdx => \E j \in 1..Len(printed) : printed[j].idx = i
    /\ pc = "exit" => lineIdx = NumLines /\ status = 0

\* A case-insensitive run that printed a line with a capital and skipped
\* another line.
C2_Witness ==
    /\ pc = "exit"
    /\ ArgCaseInsensitive
    /\ NumLines = 2
    /\ Len(printed) = 1
    /\ "S" \in Range(printed[1].line)
    /\ ArgQuery # <<>>

-----------------------------------------------------------------------------
(* C3: for the same file, query and case sensitivity, the line indices      *)
(* printed with invert_match set are the complement, within the file's      *)
(* line indices, of those printed without it.                               *)
PrintedIdx == {printed[j].idx : j \in 1..Len(printed)}

\* What the scan of the file prints under a Config c.
WouldPrint(c) ==
    {i \in 0..(NumLines - 1) : should_print(matched(LineText(i), query_str, c), c)}

Inverted(c) == [c EXCEPT !.invert_match = ~c.invert_match]

C3_InvertIsComplement ==
    pc = "exit" =>
        /\ PrintedIdx \cap WouldPrint(Inverted(config)) = {}
        /\ PrintedIdx \cup WouldPrint(Inverted(config)) = 0..(NumLines - 1)
        /\ WouldPrint(config) = PrintedIdx

\* An inverted run that printed one line of two.
C3_Witness ==
    /\ pc = "exit"
    /\ config.invert_match
    /\ NumLines = 2
    /\ Cardinality(PrintedIdx) = 1

-----------------------------------------------------------------------------
(* C4: print_match prefixes line i of file F with text T: "F: <i+1>: T"     *)
(* with filenames and line numbers, "F: T" with filenames only,             *)
(* "<i+1>: T" with line numbers only, "T" with neither.                     *)
LineNumber(j) == ToDecimal(printed[j].idx + 1)
FileName(j) == target_files[printed[j].fileNo]
Text(j) == formatted_line(printed[j].line, config)

PrefixAsClaimed(j) ==
    IF config.print_filenames /\ config.print_line_numbers
    THEN FileName(j) \o <<":">> \o LineNumber(j) \o <<":", " ">>
    ELSE IF config.print_filenames THEN FileName(j) \o <<":", " ">>
    ELSE IF config.print_line_numbers THEN LineNumber(j) \o <<":", " ">>
    ELSE <<>>

PrefixAmended(j) ==
    IF config.print_filenames /\ config.print_line_numbers
    THEN FileName(j) \o <<":", " ">> \o LineNumber(j) \o <<":", " ">>
    ELSE IF config.print_filenames THEN FileName(j) \o <<":", " ">>
    ELSE IF config.print_line_numbers THEN LineNumber(j) \o <<":", " ">>
    ELSE <<>>

\* C4 as the claim states it: "F:<i+1>: T" with both flags.
C4_PrefixNoSpace ==
    ConfigOk => /\ Len(stdout) = Len(printed)
                /\ \A j \in 1..Len(printed) : stdout[j] = PrefixAsClaimed(j) \o Text(j)

\* C4 amended: with both flags the output is "F: <i+1>: T", a colon and a
\* space after the filename; the other three forms are as claimed.
C4_Prefix ==
    ConfigOk => /\ Len(stdout) = Len(printed)
                /\ \A j \in 1..Len(printed) : stdout[j] = PrefixAmended(j) \o Text(j)

\* The third line of a file was printed with both prefixes, and another run
\* printed with each one alone.
C4_Witness ==
    /\ config.print_filenames
    /\ config.print_line_numbers
    /\ \E j \in 1..Len(printed) :
          /\ printed[j].idx = 2
          /\ stdout[j] = <<"f", ":", " ", "3", ":", " ", "F", "f">>

-----------------------------------------------------------------------------
(* C5: Config::new fails with an argument error (the error and the usage    *)
(* text printed, a non-zero status, no file opened) in exactly two cases,   *)
(* with distinct messages: fewer than 2 arguments, or no target path after  *)
(* the query; in every other case with no help flag it succeeds with a      *)
(* non-empty target list.                                                   *)
ArgumentErrorOutcome(msg) ==
    /\ pc = "exit"
    /\ status = 1
    /\ stderr = <<ParseError(msg)>>
    /\ stdout = <<HelpInfo>>
    /\ opened = <<>>
    /\ openFiles = {}

Succeeded ==
    /\ ArgumentErrors = {}
    /\ ConfigOk
    /\ config.query_str = args[2]
    /\ Range(config.target_files) = AfterQuery \ Flags

\* C5 as the claim states it.
C5_TwoErrorCases ==
    pc # "main" =>
        /\ ErrNotEnough # ErrNoFiles
        /\ ArgumentErrors # {} <=> (NumArgs < 2 \/ NoTargetAfterQuery)
        /\ NumArgs < 2 => ArgumentErrorOutcome(ErrNotEnough)
        /\ (NumArgs >= 2 /\ NoTargetAfterQuery) => ArgumentErrorOutcome(ErrNoFiles)
        /\ (NumArgs >= 2 /\ ~NoTargetAfterQuery /\ ~HelpAnywhere) => Succeeded

\* C5 amended: the second case is that no token after the query is a target
\* path and none is -h or --help (a help flag after the query ends the run
\* with status 0 before the targets are counted).
C5_TwoErrorCasesAmended ==
    pc # "main" =>
        /\ ErrNotEnough # ErrNoFiles
        /\ ArgumentErrors # {} <=>
              (NumArgs < 2 \/ (NoTargetAfterQuery /\ ~HelpAfterQuery))
        /\ NumArgs < 2 => ArgumentErrorOutcome(ErrNotEnough)
        /\ (NumArgs >= 2 /\ NoTargetAfterQuery /\ ~HelpAfterQuery) =>
              ArgumentErrorOutcome(ErrNoFiles)
        /\ (NumArgs >= 2 /\ ~NoTargetAfterQuery /\ ~HelpAnywhere) => Succeeded

\* A query and flags but no target: "No files provided."
C5_Witness ==
    /\ NumArgs = 3
    /\ ArgumentErrorOutcome(ErrNoFiles)

-----------------------------------------------------------------------------
(* C6: every argument list that contains -h or --help (also as the only or  *)
(* the first argument, also with no target) prints the usage text and       *)
(* exits with status 0, with no argument error and no file opened.          *)
C6_HelpAlwaysSucceeds ==
    (pc # "main" /\ HelpAnywhere) =>
        /\ pc = "exit"
        /\ status = 0
        /\ stdout = <<HelpInfo>>
        /\ stderr = <<>>
        /\ opened = <<>>

-----------------------------------------------------------------------------
(* C7: in recursive mode collect_files_recursively never fails: traversal   *)
(* errors are skipped, the walk goes on, and only regular files are         *)
(* returned; with -r and targets that all fail to traverse the run prints   *)
(* nothing and exits with status 0, and without -r a nonexistent target     *)
(* aborts the run with status 1.                                            *)

\* The regular files at or below a path, through the directories that can be
\* listed.
RECURSIVE RegularFilesUnder(_)
RegularFilesUnder(path) ==
    LET node == NodeAt(fs, path) IN
    IF node.kind = "file" THEN {path}
    ELSE IF node.kind = "dir" /\ node.readable
         THEN UNION {RegularFilesUnder(node.children[k]) : k \in 1..Len(node.children)}
         ELSE {}

Untraversable(path) == NodeAt(fs, path).kind \in {"missing", "error"}

C7_TraversalErrorsSkipped ==
    /\ (ConfigOk /\ config.recursive_search) =>
          /\ pc = "collect" => stderr = <<>> /\ status = -1
          /\ pc \in {"collect", "loop", "scan", "exit"} =>
                /\ \A k \in 1..Len(files) : NodeAt(fs, files[k]).kind = "file"
                /\ Range(files) =
                      UNION {RegularFilesUnder(config.target_files[k]) :
                                k \in 1..(pathIdx - 1)}
          /\ pc \in {"loop", "scan", "exit"} =>
                /\ pathIdx = Len(config.target_files) + 1
                /\ target_files = files
          /\ ApplicationErrors # {} => opened # <<>>
          /\ (pc = "exit" /\ \A t \in Range(config.target_files) : Untraversable(t)) =>
                stdout = <<>> /\ stderr = <<>> /\ status = 0
    /\ (ConfigOk /\ ~config.recursive_search /\ pc = "exit"
        /\ \E t \in Range(config.target_files) : Untraversable(t)) =>
          status = 1 /\ Cardinality(ApplicationErrors) = 1

\* A recursive run over a missing path and a directory with entries that
\* fail: it went on to search the directory's regular files.
C7_Witness ==
    /\ pc = "exit"
    /\ config.recursive_search
    /\ config.target_files = <<PathX, PathD>>
    /\ target_files = <<PathDG, PathDSB>>
    /\ opened = target_files
    /\ status = 0

-----------------------------------------------------------------------------
(* C8: with colorize set, removing the highlight markers print_match        *)
(* inserted from the formatted text gives back the line: no character       *)
(* outside the markers changes and the wrapped spans keep their casing.     *)
C8_StripRoundTrip ==
    /\ Len(stdout) = Len(printed)
    /\ \A j \in 1..Len(printed) :
          /\ config.colored_output
          /\ StripMarkers(stdout[j]) = printed[j].line
          /\ StripMarkers(formatted_line(printed[j].line, config)) = printed[j].line

\* A case-insensitive run with the query ".s" highlighted ".S", and only
\* that, in the line ".Ss".
C8_Witness ==
    \E j \in 1..Len(printed) :
        /\ config.case_insensitive
        /\ config.query_str = <<".", "s">>
        /\ printed[j].line = <<".", "S", "s">>
        /\ stdout[j] = <<"ESC_RED", ".", "S", "ESC_RESET", "s">>

-----------------------------------------------------------------------------
(* C9: files are processed one after another in the order of the target     *)
(* list: at most one file is open, the output for target j is complete      *)
(* before target j+1 is opened, recursive collection ends before the first  *)
(* file is opened, and the file is closed on every exit of search_in_file,  *)
(* so none is open when the run ends.                                       *)
C9_State ==
    /\ Cardinality(openFiles) <= 1
    /\ openFiles # {} => pc = "scan" /\ openFiles = {target_files[fileIdx]}
    /\ pc \in {"main", "execute", "collect"} => opened = <<>> /\ printed = <<>>
    /\ pc \in {"loop", "exit"} => openFiles = {}
    /\ opened = SubSeq(target_files, 1, Len(opened))
    /\ pc = "scan" => Len(opened) = fileIdx
    /\ pc = "loop" => Len(opened) = fileIdx - 1
    /\ \A j \in 1..Len(printed) : printed[j].fileNo <= Len(opened)
    /\ (config.recursive_search /\ opened # <<>>) =>
          /\ pathIdx > Len(config.target_files)
          /\ target_files = files

\* A line is printed for the target opened last, and a target is opened only
\* with no file open.
C9_Step ==
    /\ printed' # printed =>
          /\ opened' = opened
          /\ Len(printed') = Len(printed) + 1
          /\ printed'[Len(printed')].fileNo = Len(opened)
          /\ SubSeq(printed', 1, Len(printed)) = printed
          /\ openFiles = {target_files[Len(opened)]}
    /\ opened' # opened =>
          /\ openFiles = {}
          /\ opened' = Append(opened, target_files[Len(opened) + 1])
          /\ printed' = printed

C9_Sequential == [](C9_State) /\ [][C9_Step]_vars

\* A run that printed from its first target and ended at a read failure in
\* its second.
C9_Witness ==
    /\ pc = "exit"
    /\ status = 1
    /\ opened = <<PathF, PathB>>
    /\ \E j \in 1..Len(printed) : printed[j].fileNo = 2
    /\ \E j \in 1..Len(printed) : printed[j].fileNo = 1

-----------------------------------------------------------------------------
(* C10: the match decision of search_in_file and the highlight of           *)
(* print_match agree: a line is matched exactly when the formatter with     *)
(* colorize set wraps a span of it; so with colorize, every line printed    *)
(* without invert carries a highlight and no line printed with invert does. *)
C10_HighlightAgreesWithMatch ==
    /\ \A i \in 0..(NumLines - 1) :
          (opened # <<>> /\ i < lineIdx /\ config.colored_output) =>
              (matched(LineText(i), query_str, config)
                  <=> HasMarker(formatted_line(LineText(i), config)))
    /\ \A j \in 1..Len(printed) :
          config.colored_output => (HasMarker(stdout[j]) <=> ~config.invert_match)

====
